---- MODULE Spec2Model ----
(***************************************************************************)
(* Model of torch/cuda/__init__.py: the lazy-initialization state machine  *)
(* (_lazy_call, _lazy_init, _after_fork), the availability probe, the      *)
(* error translator (check_error) and the device context manager.          *)
(*                                                                         *)
(* Every action is one call of a public or module-level function, run to   *)
(* completion on one thread.  `ret` records what that call did: its        *)
(* outcome, the shim (torch._C / cudart) calls it made, the deferred       *)
(* actions it ran, and the outcome of the _lazy_init call nested in it.    *)
(***************************************************************************)
EXTENDS Integers, Sequences, FiniteSets

\* ---------------------------------------------------------------- bounds
MaxActions == 3      \* number of _lazy_call invocations in a behaviour
MaxPid == 3          \* process ids are 1..MaxPid (each fork moves to a child)
MaxCtx == 1          \* number of device(...) context objects constructed
MaxDepth == 2        \* nesting depth of active `with device(...)` blocks
MaxThreads == 2      \* threads that call _lazy_init at the same time

\* ------------------------------------------------------ program constants
SUCCESS == 0
ERROR_NOT_READY == 34

\* ------------------------------------------------------------ input sets
ActionErrors == {"E1"}                \* what a deferred callable may raise
Tracebacks == {1, 2}                  \* traceback.format_stack() at the call
OldDriverVersions == {0, 8000}        \* _cuda_getDriverVersion() when insufficient
GoodDriverVersions == {9000}          \* _cuda_getDriverVersion() when sufficient
DeviceCounts == {0, 2}                \* _cuda_getDeviceCount()
DeviceArgs == {0 - 2, 0 - 1, 0, 1}    \* idx given to device(idx)
SetDeviceArgs == {0 - 1, 0, 1}        \* device given to set_device(device)
StatusCodes == {SUCCESS, ERROR_NOT_READY, 1}  \* res given to check_error(res)
Threads == 1..MaxThreads
None == 0 - 1                         \* the stream argument None
StreamArgs == {None, 1, 2}            \* stream given to stream(stream): its _cdata

VARIABLES
    _initialized,      \* module global, line 20
    _queued_calls,     \* module global, line 21: sequence of (callable, traceback)
    _in_bad_fork,      \* module global, line 22
    _original_pid,     \* module global, line 23 (0 stands for its initial False)
    _cudart,           \* module global, line 24 (FALSE stands for None)
    CudaBase_new,      \* _CudaBase.__new__: "_lazy_new" or "deleted"
    pid,               \* os.getpid() of the process being followed
    hasShim,           \* hasattr(torch._C, '_cuda_isDriverSufficient')
    driverSufficient,  \* torch._C._cuda_isDriverSufficient()
    driverVersion,     \* torch._C._cuda_getDriverVersion()
    deviceCount,       \* torch._C._cuda_getDeviceCount()
    curDevice,         \* the runtime's current device
    ctxs,              \* the device objects constructed: [idx, prev_idx]
    scopes,            \* stack of device objects whose with-block is active
    executed,          \* ids of the callables invoked so far, in order
    ret,               \* what the last call did
    curStream,         \* the runtime's current stream (0: the default stream)
    sscopes,           \* stack of the active `with stream(...)` blocks
    entered,           \* for each active device block, the device current before it
    thr                \* the threads inside _lazy_init: where each one is

machine == <<_initialized, _queued_calls, _in_bad_fork, _original_pid, _cudart>>
env == <<hasShim, driverSufficient, driverVersion, deviceCount>>
vars == <<_initialized, _queued_calls, _in_bad_fork, _original_pid, _cudart,
          CudaBase_new, pid, hasShim, driverSufficient, driverVersion,
          deviceCount, curDevice, ctxs, scopes, executed, ret,
          curStream, sscopes, entered, thr>>
other == <<curStream, sscopes, thr>>

\* ---------------------------------------------------------------- errors
Error(type, variant, code, cause, tb) ==
    [type |-> type, variant |-> variant, code |-> code, cause |-> cause, tb |-> tb]
NoErr == Error("none", "", 0, "none", 0)

\* _check_driver, line 54
NotCompiledError == Error("AssertionError", "Torch not compiled with CUDA enabled", 0, "none", 0)
\* _check_driver, lines 58-61
NoDriverError == Error("AssertionError", "Found no NVIDIA driver on your system", 0, "none", 0)
\* _check_driver, lines 64-70: the message is formatted with the version found
DriverTooOldError(v) ==
    Error("AssertionError", "The NVIDIA driver on your system is too old (found version {})", v, "none", 0)
\* _lazy_init, lines 97-98
BadForkError == Error("RuntimeError", "Cannot re-initialize CUDA in forked subprocess", 0, "none", 0)
\* _load_cudart, lines 45-49
NoCudartError == Error("RuntimeError", "couldn't find libcudart", 0, "none", 0)
\* torch._C._cuda_init() raising, line 100
NativeInitError == Error("RuntimeError", "cuda runtime error in _cuda_init", 0, "none", 0)
\* _lazy_init, lines 110-113: str(e) and orig_traceback are formatted into the
\* message and e is chained as the cause
DeferredCudaCallError(e, orig_traceback) ==
    Error("DeferredCudaCallError", "CUDA call failed lazily at initialization", 0, e, orig_traceback)
\* CudaError.__init__, lines 138-140: '{msg} ({code})'
CudaError(code) == Error("CudaError", "cudaGetErrorString", code, "none", 0)
\* an exception raised by a callable given to _lazy_call
ActionError(e) == Error("Exception", e, 0, "none", 0)
\* attribute lookup on torch._C when the extension was built without CUDA
AttributeError == Error("AttributeError", "module 'torch._C' has no attribute", 0, "none", 0)
\* the native runtime rejecting a device index
InvalidDeviceError == Error("RuntimeError", "invalid device ordinal", 0, "none", 0)
\* the native runtime failing a call
RuntimeCallError == Error("RuntimeError", "cuda runtime error", 0, "none", 0)
\* an exception raised by the body of a with-block
BodyError == Error("Exception", "body", 0, "none", 0)

\* -------------------------------------------------------- the call record
Ret(op, arg, err, value, init, calls, ran) ==
    [op |-> op, arg |-> arg, kind |-> IF err = NoErr THEN "return" ELSE "raise",
     err |-> err, value |-> value, init |-> init, calls |-> calls, ran |-> ran]

Ids(q) == [i \in 1..Len(q) |-> q[i].id]
Range(s) == {s[i] : i \in 1..Len(s)}
NextId == Cardinality(Range(Ids(_queued_calls)) \cup Range(executed)) + 1

\* ------------------------------------------------- the capability shim
\* torch._C._cuda_setDevice(d) as called at lines 166, 170 and 200
ShimSetDevice(d) ==
    IF ~hasShim THEN [err |-> AttributeError, device |-> curDevice]
    ELSE IF d \notin 0..(deviceCount - 1)
         THEN [err |-> InvalidDeviceError, device |-> curDevice]
         ELSE [err |-> NoErr, device |-> d]

\* torch._C._cuda_getDevice() as called at line 164
ShimGetDevice ==
    IF ~hasShim THEN [err |-> AttributeError, device |-> curDevice]
    ELSE IF deviceCount = 0
         THEN [err |-> InvalidDeviceError, device |-> curDevice]
         ELSE [err |-> NoErr, device |-> curDevice]

\* ------------------------------------------------------ is_available
\* Variant: `>= 0` for `> 0` at line 32.
is_available_any_count ==
    IF ~hasShim THEN [value |-> FALSE, calls |-> <<>>]
    ELSE IF ~driverSufficient
         THEN [value |-> FALSE, calls |-> <<"_cuda_isDriverSufficient">>]
         ELSE [value |-> deviceCount >= 0,
               calls |-> <<"_cuda_isDriverSufficient", "_cuda_getDeviceCount">>]

is_available ==
    IF ~hasShim THEN [value |-> FALSE, calls |-> <<>>]
    ELSE IF ~driverSufficient
         THEN [value |-> FALSE, calls |-> <<"_cuda_isDriverSufficient">>]
         ELSE [value |-> deviceCount > 0,
               calls |-> <<"_cuda_isDriverSufficient", "_cuda_getDeviceCount">>]

\* ------------------------------------------------------ _check_driver
\* Variant: one message for every insufficient driver.
_check_driver_one_message ==
    IF ~hasShim THEN [err |-> NotCompiledError, calls |-> <<>>]
    ELSE IF ~driverSufficient
         THEN [err |-> NoDriverError,
               calls |-> <<"_cuda_isDriverSufficient", "_cuda_getDriverVersion">>]
         ELSE [err |-> NoErr, calls |-> <<"_cuda_isDriverSufficient">>]

_check_driver ==
    IF ~hasShim THEN [err |-> NotCompiledError, calls |-> <<>>]
    ELSE IF ~driverSufficient
         THEN IF driverVersion = 0
              THEN [err |-> NoDriverError,
                    calls |-> <<"_cuda_isDriverSufficient", "_cuda_getDriverVersion">>]
              ELSE [err |-> DriverTooOldError(driverVersion),
                    calls |-> <<"_cuda_isDriverSufficient", "_cuda_getDriverVersion",
                                "_cuda_getDriverVersion">>]
         ELSE [err |-> NoErr, calls |-> <<"_cuda_isDriverSufficient">>]

\* ------------------------------------------------------ _lazy_init
\* Variant: the loop taking the queue from its back.
RECURSIVE RunQueuedLifo(_, _, _)
RunQueuedLifo(q, i, ran) ==
    LET j == Len(q) + 1 - i IN
    IF i > Len(q) THEN [ran |-> ran, err |-> NoErr]
    ELSE IF q[j].err # "none"
         THEN [ran |-> Append(ran, q[j].id),
               err |-> DeferredCudaCallError(q[j].err, q[j].tb)]
         ELSE RunQueuedLifo(q, i + 1, Append(ran, q[j].id))

\* Variant: the loop going on past a callable that raised, raising at the end.
RECURSIVE RunQueuedKeepGoing(_, _, _)
RunQueuedKeepGoing(q, i, ran) ==
    IF i > Len(q) THEN [ran |-> ran, err |-> NoErr]
    ELSE LET rest == RunQueuedKeepGoing(q, i + 1, Append(ran, q[i].id)) IN
         IF q[i].err # "none"
         THEN [ran |-> rest.ran, err |-> DeferredCudaCallError(q[i].err, q[i].tb)]
         ELSE rest

\* The for loop of lines 107-113 from position i on: each callable is
\* invoked in turn; the first one that raises ends the loop.
RECURSIVE RunQueued(_, _, _)
RunQueued(q, i, ran) ==
    IF i > Len(q) THEN [ran |-> ran, err |-> NoErr]
    ELSE IF q[i].err # "none"
         THEN [ran |-> Append(ran, q[i].id),
               err |-> DeferredCudaCallError(q[i].err, q[i].tb)]
         ELSE RunQueued(q, i + 1, Append(ran, q[i].id))

\* What a call leaves when it raises before line 105: nothing is changed.
InitFailed(init, err, calls) ==
    [initialized |-> _initialized, original_pid |-> _original_pid, cudart |-> _cudart,
     init |-> init, err |-> err, calls |-> calls, ran |-> <<>>]

\* Variant: line 106 (`_initialized = True`) placed before line 102.
FirstInitEarlyReady(fail) ==
    IF _in_bad_fork THEN InitFailed("raise", BadForkError, <<>>)
    ELSE LET chk == _check_driver IN
    IF chk.err # NoErr THEN InitFailed("raise", chk.err, chk.calls)
    ELSE IF fail = "_cuda_init"
         THEN InitFailed("raise", NativeInitError, chk.calls \o <<"_cuda_init">>)
    ELSE IF fail = "_cuda_sparse_init"
         THEN InitFailed("raise", NativeInitError,
                         chk.calls \o <<"_cuda_init", "_cuda_sparse_init">>)
    ELSE IF fail = "_load_cudart"
         THEN [initialized |-> TRUE, original_pid |-> _original_pid, cudart |-> _cudart,
               init |-> "raise", err |-> NoCudartError,
               calls |-> chk.calls \o <<"_cuda_init", "_cuda_sparse_init", "_load_cudart">>,
               ran |-> <<>>]
    ELSE LET run == RunQueued(_queued_calls, 1, <<>>) IN
         [initialized |-> TRUE, original_pid |-> pid, cudart |-> TRUE,
          init |-> IF run.err = NoErr THEN "done" ELSE "raise", err |-> run.err,
          calls |-> chk.calls \o <<"_cuda_init", "_cuda_sparse_init", "_load_cudart">>,
          ran |-> run.ran]

\* Lines 89-113: what _lazy_init does past its `if _initialized: return`.
\* `fail` is the native step that fails in this call, if the call gets that far.
FirstInit(fail) ==
    IF _in_bad_fork THEN InitFailed("raise", BadForkError, <<>>)
    ELSE LET chk == _check_driver IN
    IF chk.err # NoErr THEN InitFailed("raise", chk.err, chk.calls)
    ELSE IF fail = "_cuda_init"
         THEN InitFailed("raise", NativeInitError, chk.calls \o <<"_cuda_init">>)
    ELSE IF fail = "_cuda_sparse_init"
         THEN InitFailed("raise", NativeInitError,
                         chk.calls \o <<"_cuda_init", "_cuda_sparse_init">>)
    ELSE IF fail = "_load_cudart"
         THEN InitFailed("raise", NoCudartError,
                         chk.calls \o <<"_cuda_init", "_cuda_sparse_init", "_load_cudart">>)
    ELSE LET run == RunQueued(_queued_calls, 1, <<>>) IN
         [initialized |-> TRUE, original_pid |-> pid, cudart |-> TRUE,
          init |-> IF run.err = NoErr THEN "done" ELSE "raise", err |-> run.err,
          calls |-> chk.calls \o <<"_cuda_init", "_cuda_sparse_init", "_load_cudart">>,
          ran |-> run.ran]

\* Variant: _lazy_init without lines 87-88.
_lazy_init_unguarded(fail) == FirstInit(fail)

_lazy_init(fail) ==
    IF _initialized THEN InitFailed("noop", NoErr, <<>>) ELSE FirstInit(fail)

\* The native steps of lines 100-102 that may fail in a call made now: any of
\* them when the call gets that far, none to choose from when it does not.
InitFailures ==
    IF _initialized \/ _in_bad_fork \/ _check_driver.err # NoErr
    THEN {"none"}
    ELSE {"none", "_cuda_init", "_cuda_sparse_init", "_load_cudart"}

\* The assignments a nested _lazy_init call makes to the module globals.
SetGlobals(li) ==
    /\ _initialized' = li.initialized
    /\ _original_pid' = li.original_pid
    /\ _cudart' = li.cudart
    /\ executed' = executed \o li.ran

\* ------------------------------------------------------------ actions
Init ==
    /\ _initialized = FALSE
    /\ _queued_calls = <<>>
    /\ _in_bad_fork = FALSE
    /\ _original_pid = 0
    /\ _cudart = FALSE
    /\ CudaBase_new = "_lazy_new"
    /\ pid = 1
    /\ hasShim \in BOOLEAN
    /\ driverSufficient \in BOOLEAN
    /\ driverVersion \in IF driverSufficient THEN GoodDriverVersions
                         ELSE OldDriverVersions
    /\ deviceCount \in DeviceCounts
    /\ ~hasShim => (~driverSufficient /\ driverVersion = 0 /\ deviceCount = 0)
    /\ curDevice = 0
    /\ ctxs = <<>>
    /\ scopes = <<>>
    /\ executed = <<>>
    /\ ret = Ret("import", 0, NoErr, "None", "none", <<>>, <<>>)
    /\ curStream = 0
    /\ sscopes = <<>>
    /\ entered = <<>>
    /\ thr = [t \in Threads |-> [pc |-> "idle", i |-> 0, inits |-> 0]]

\* is_available()
IsAvailable ==
    LET r == is_available IN
    /\ ret' = Ret("is_available", 0, NoErr, IF r.value THEN "True" ELSE "False",
                  "none", r.calls, <<>>)
    /\ UNCHANGED <<machine, CudaBase_new, pid, env, other, curDevice, ctxs, scopes, entered, executed>>

\* _lazy_call(callable): the callable raises e ("none": it returns) and the
\* stack at the call formats as tb
LazyCall ==
    \E e \in ActionErrors \cup {"none"}, tb \in Tracebacks :
        /\ NextId <= MaxActions
        /\ IF _initialized
           THEN /\ executed' = Append(executed, NextId)
                /\ ret' = Ret("_lazy_call", NextId,
                              IF e = "none" THEN NoErr ELSE ActionError(e),
                              "None", "none", <<>>, <<NextId>>)
                /\ UNCHANGED _queued_calls
           ELSE /\ _queued_calls' = Append(_queued_calls,
                                           [id |-> NextId, err |-> e, tb |-> tb])
                /\ ret' = Ret("_lazy_call", NextId, NoErr, "None", "none", <<>>, <<>>)
                /\ UNCHANGED executed
        /\ UNCHANGED <<_initialized, _in_bad_fork, _original_pid, _cudart,
                       CudaBase_new, pid, env, other, curDevice, ctxs, scopes, entered>>

\* _lazy_init()
LazyInit ==
    \E fail \in InitFailures :
        LET li == _lazy_init(fail) IN
        /\ SetGlobals(li)
        /\ ret' = Ret("_lazy_init", 0, li.err, "None", li.init, li.calls, li.ran)
        /\ UNCHANGED <<_queued_calls, _in_bad_fork, CudaBase_new, pid, env, other,
                       curDevice, ctxs, scopes, entered>>

\* Variant: the hook without the `_initialized and` of line 118.
_after_fork_any_child ==
    IF _original_pid # pid'
    THEN /\ _initialized' = FALSE
         /\ _in_bad_fork' = TRUE
         /\ CudaBase_new' = "_lazy_new"
    ELSE UNCHANGED <<_initialized, _in_bad_fork, CudaBase_new>>

\* Variant: the hook without line 121.
_after_fork_keeps_fast_path ==
    IF _initialized /\ _original_pid # pid'
    THEN /\ _initialized' = FALSE
         /\ _in_bad_fork' = TRUE
         /\ CudaBase_new' = CudaBase_new
    ELSE UNCHANGED <<_initialized, _in_bad_fork, CudaBase_new>>

\* Variant: the hook without line 120.
_after_fork_forgets ==
    IF _initialized /\ _original_pid # pid'
    THEN /\ _initialized' = FALSE
         /\ _in_bad_fork' = _in_bad_fork
         /\ CudaBase_new' = "_lazy_new"
    ELSE UNCHANGED <<_initialized, _in_bad_fork, CudaBase_new>>

\* _after_fork(arg), lines 116-121; pid' is os.getpid() where the hook runs
_after_fork ==
    IF _initialized /\ _original_pid # pid'
    THEN /\ _initialized' = FALSE
         /\ _in_bad_fork' = TRUE
         /\ CudaBase_new' = "_lazy_new"
    ELSE UNCHANGED <<_initialized, _in_bad_fork, CudaBase_new>>

\* os.fork(): the model follows the child, where multiprocessing runs the
\* hook registered at line 124
Fork ==
    /\ pid < MaxPid
    /\ pid' = pid + 1
    /\ _after_fork
    /\ ret' = Ret("fork", 0, NoErr, "None", "none", <<>>, <<>>)
    /\ UNCHANGED <<_queued_calls, _original_pid, _cudart, env, other, curDevice, ctxs,
                   scopes, entered, executed>>

\* _after_fork(arg) called in the process it was registered in
AfterFork ==
    /\ pid' = pid
    /\ _after_fork
    /\ ret' = Ret("_after_fork", 0, NoErr, "None", "none", <<>>, <<>>)
    /\ UNCHANGED <<_queued_calls, _original_pid, _cudart, env, other, curDevice, ctxs,
                   scopes, entered, executed>>

\* What a call that never reaches _lazy_init leaves.
NotCalled == InitFailed("none", NoErr, <<>>)

\* Variant: check_error returning for the not-ready code too.
check_error_polls(res, fail) ==
    IF res # SUCCESS /\ res # ERROR_NOT_READY
    THEN LET li == _lazy_init(fail) IN
         IF li.err # NoErr
         THEN [li |-> li, err |-> li.err, calls |-> li.calls]
         ELSE [li |-> li, err |-> CudaError(res),
               calls |-> li.calls \o <<"cudaGetErrorString">>]
    ELSE [li |-> NotCalled, err |-> NoErr, calls |-> <<>>]

\* check_error(res), lines 143-145.  Building the CudaError calls cudart(),
\* which calls _lazy_init() and then asks the library for the message.
check_error(res, fail) ==
    IF res # SUCCESS
    THEN LET li == _lazy_init(fail) IN
         IF li.err # NoErr
         THEN [li |-> li, err |-> li.err, calls |-> li.calls]
         ELSE [li |-> li, err |-> CudaError(res),
               calls |-> li.calls \o <<"cudaGetErrorString">>]
    ELSE [li |-> NotCalled, err |-> NoErr, calls |-> <<>>]

CheckError ==
    \E res \in StatusCodes :
      \E fail \in (IF res = SUCCESS THEN {"none"} ELSE InitFailures) :
        LET r == check_error(res, fail) IN
        /\ SetGlobals(r.li)
        /\ ret' = Ret("check_error", res, r.err, "None", r.li.init, r.calls, r.li.ran)
        /\ UNCHANGED <<_queued_calls, _in_bad_fork, CudaBase_new, pid, env, other,
                       curDevice, ctxs, scopes, entered>>

\* Constructing an object of a _CudaBase class: _lazy_new (lines 313-318)
\* while it is installed, the plain constructor once it was deleted.
Construct ==
    \E fail \in (IF CudaBase_new = "_lazy_new" THEN InitFailures ELSE {"none"}) :
        LET li == IF CudaBase_new = "_lazy_new" THEN _lazy_init(fail) ELSE NotCalled IN
        /\ SetGlobals(li)
        /\ CudaBase_new' = IF li.err = NoErr THEN "deleted" ELSE CudaBase_new
        /\ ret' = Ret("_CudaBase.__new__", 0, li.err, "None", li.init, li.calls, li.ran)
        /\ UNCHANGED <<_queued_calls, _in_bad_fork, pid, env, other, curDevice, ctxs, scopes, entered>>

\* ------------------------------------------------------ device scopes
\* device.__init__(idx), lines 156-158
NewDevice ==
    \E idx \in DeviceArgs :
        /\ Len(ctxs) < MaxCtx
        /\ ctxs' = Append(ctxs, [idx |-> idx, prev_idx |-> 0 - 1])
        /\ ret' = Ret("device", idx, NoErr, "None", "none", <<>>, <<>>)
        /\ UNCHANGED <<machine, CudaBase_new, pid, env, other, curDevice, scopes, entered, executed>>

\* device.__enter__ past its sentinel test, lines 163-166
EnterConcrete(d, fail) ==
    LET li == _lazy_init(fail) IN
    IF li.err # NoErr
    THEN [li |-> li, err |-> li.err, prev_idx |-> d.prev_idx,
          device |-> curDevice, calls |-> li.calls]
    ELSE LET g == ShimGetDevice IN
         IF g.err # NoErr
         THEN [li |-> li, err |-> g.err, prev_idx |-> d.prev_idx,
               device |-> curDevice, calls |-> li.calls \o <<"_cuda_getDevice">>]
         ELSE IF g.device # d.idx
              THEN LET s == ShimSetDevice(d.idx) IN
                   [li |-> li, err |-> s.err, prev_idx |-> g.device,
                    device |-> s.device,
                    calls |-> li.calls \o <<"_cuda_getDevice", "_cuda_setDevice">>]
              ELSE [li |-> li, err |-> NoErr, prev_idx |-> g.device,
                    device |-> curDevice, calls |-> li.calls \o <<"_cuda_getDevice">>]

\* Variant: __enter__ without lines 161-162.
__enter___no_sentinel(d, fail) == EnterConcrete(d, fail)

\* device.__enter__, lines 160-166.  `self.idx is -1` compares identities;
\* CPython keeps one object per small integer, so for an int it is idx = -1.
__enter__(d, fail) ==
    IF d.idx = 0 - 1
    THEN [li |-> NotCalled, err |-> NoErr, prev_idx |-> d.prev_idx,
          device |-> curDevice, calls |-> <<>>]
    ELSE EnterConcrete(d, fail)

\* device.__exit__, lines 168-171; `fails`: the runtime fails the restoring call
__exit__(d, fails) ==
    IF d.prev_idx # d.idx
    THEN LET s == IF fails THEN [err |-> RuntimeCallError, device |-> curDevice]
                  ELSE ShimSetDevice(d.prev_idx) IN
         [err |-> s.err, device |-> s.device, calls |-> <<"_cuda_setDevice">>,
          suppress |-> FALSE]
    ELSE [err |-> NoErr, device |-> curDevice, calls |-> <<>>, suppress |-> FALSE]

\* `with c:` reaches c.__enter__(); the block is entered when it returns
Enter ==
    \E c \in 1..Len(ctxs) :
      \E fail \in (IF ctxs[c].idx = 0 - 1 THEN {"none"} ELSE InitFailures) :
        LET r == __enter__(ctxs[c], fail) IN
        /\ Len(scopes) < MaxDepth
        /\ SetGlobals(r.li)
        /\ ctxs' = [ctxs EXCEPT ![c].prev_idx = r.prev_idx]
        /\ curDevice' = r.device
        /\ scopes' = IF r.err = NoErr THEN Append(scopes, c) ELSE scopes
        /\ entered' = IF r.err = NoErr THEN Append(entered, curDevice) ELSE entered
        /\ ret' = Ret("__enter__", c, r.err, "None", r.li.init, r.calls, r.li.ran)
        /\ UNCHANGED <<_queued_calls, _in_bad_fork, CudaBase_new, pid, env, other>>

\* The innermost with-block ends, by falling off its end or by its body
\* raising (exc); c.__exit__(...) runs either way.
Exit ==
    \E exc \in BOOLEAN, fails \in BOOLEAN :
        LET c == scopes[Len(scopes)]
            r == __exit__(ctxs[c], fails)
            raised == IF r.err # NoErr THEN r.err
                      ELSE IF exc /\ ~r.suppress THEN BodyError ELSE NoErr
        IN
        /\ scopes # <<>>
        /\ scopes' = SubSeq(scopes, 1, Len(scopes) - 1)
        /\ entered' = SubSeq(entered, 1, Len(entered) - 1)
        /\ curDevice' = r.device
        /\ ret' = Ret("__exit__", c, raised, IF exc THEN "body raised" ELSE "None",
                      "none", r.calls, <<>>)
        /\ UNCHANGED <<machine, CudaBase_new, pid, env, other, ctxs, executed>>

\* set_device(device), lines 189-200
set_device(device) ==
    IF device >= 0
    THEN LET s == ShimSetDevice(device) IN
         [err |-> s.err, device |-> s.device,
          calls |-> IF s.err = AttributeError THEN <<>> ELSE <<"_cuda_setDevice">>]
    ELSE [err |-> NoErr, device |-> curDevice, calls |-> <<>>]

SetDevice ==
    \E device \in SetDeviceArgs :
        LET r == set_device(device) IN
        /\ curDevice' = r.device
        /\ ret' = Ret("set_device", device, r.err, "None", "none", r.calls, <<>>)
        /\ UNCHANGED <<machine, CudaBase_new, pid, env, other, ctxs, scopes, entered, executed>>

\* ------------------------------------------------------ stream scopes
\* torch._C._cuda_getCurrentStream() as called at line 260
ShimGetStream ==
    IF ~hasShim THEN [err |-> AttributeError, stream |-> curStream]
    ELSE [err |-> NoErr, stream |-> curStream]

\* torch._C._cuda_setStream(h) as called at lines 229 and 233
ShimSetStream(h) ==
    IF ~hasShim THEN [err |-> AttributeError, stream |-> curStream]
    ELSE [err |-> NoErr, stream |-> h]

\* current_stream(), lines 257-260
current_stream(fail) ==
    LET li == _lazy_init(fail) IN
    IF li.err # NoErr
    THEN [li |-> li, err |-> li.err, stream |-> curStream, calls |-> li.calls]
    ELSE LET g == ShimGetStream IN
         [li |-> li, err |-> g.err, stream |-> g.stream,
          calls |-> li.calls \o <<"_cuda_getCurrentStream">>]

\* stream(stream) up to its yield, lines 225-231
stream_enter(st, fail) ==
    IF st = None
    THEN [li |-> NotCalled, err |-> NoErr, prev_stream |-> None,
          stream |-> curStream, calls |-> <<>>]
    ELSE LET cs == current_stream(fail) IN
         IF cs.err # NoErr
         THEN [li |-> cs.li, err |-> cs.err, prev_stream |-> None,
               stream |-> curStream, calls |-> cs.calls]
         ELSE LET s == ShimSetStream(st) IN
              [li |-> cs.li, err |-> s.err, prev_stream |-> cs.stream,
               stream |-> s.stream, calls |-> cs.calls \o <<"_cuda_setStream">>]

\* Variant: lines 230-233 without try/finally, the restore skipped when the
\* body raises.
stream_exit_no_finally(sc, exc) ==
    IF sc.stream = None \/ exc
    THEN [err |-> NoErr, stream |-> curStream, calls |-> <<>>]
    ELSE LET s == ShimSetStream(sc.prev_stream) IN
         [err |-> s.err, stream |-> s.stream, calls |-> <<"_cuda_setStream">>]

\* stream(stream) past its yield: `return` at line 227 for None, the finally
\* clause of lines 232-233 otherwise, whether or not the body raised (exc)
stream_exit(sc, exc) ==
    IF sc.stream = None
    THEN [err |-> NoErr, stream |-> curStream, calls |-> <<>>]
    ELSE LET s == ShimSetStream(sc.prev_stream) IN
         [err |-> s.err, stream |-> s.stream, calls |-> <<"_cuda_setStream">>]

\* `with stream(st):` runs the generator to its yield
StreamEnter ==
    \E st \in StreamArgs :
      \E fail \in (IF st = None THEN {"none"} ELSE InitFailures) :
        LET r == stream_enter(st, fail) IN
        /\ Len(sscopes) < MaxDepth
        /\ SetGlobals(r.li)
        /\ curStream' = r.stream
        /\ sscopes' = IF r.err = NoErr
                      THEN Append(sscopes, [stream |-> st, prev_stream |-> r.prev_stream,
                                            entry |-> curStream])
                      ELSE sscopes
        /\ ret' = Ret("stream.__enter__", st, r.err, "None", r.li.init, r.calls, r.li.ran)
        /\ UNCHANGED <<_queued_calls, _in_bad_fork, CudaBase_new, pid, env, curDevice,
                       ctxs, scopes, entered, thr>>

\* The innermost `with stream(...)` block ends, normally or by its body raising
StreamExit ==
    \E exc \in BOOLEAN :
        LET sc == sscopes[Len(sscopes)]
            r == stream_exit(sc, exc)
            raised == IF r.err # NoErr THEN r.err
                      ELSE IF exc THEN BodyError ELSE NoErr
        IN
        /\ sscopes # <<>>
        /\ sscopes' = SubSeq(sscopes, 1, Len(sscopes) - 1)
        /\ curStream' = r.stream
        /\ ret' = Ret("stream.__exit__", sc.stream, raised,
                      IF exc THEN "body raised" ELSE "None", "none", r.calls, <<>>)
        /\ UNCHANGED <<machine, CudaBase_new, pid, env, curDevice, ctxs, scopes,
                       entered, executed, thr>>

\* current_stream()
CurrentStream ==
    \E fail \in InitFailures :
        LET r == current_stream(fail) IN
        /\ SetGlobals(r.li)
        /\ ret' = Ret("current_stream", r.stream, r.err, "None", r.li.init, r.calls, r.li.ran)
        /\ UNCHANGED <<_queued_calls, _in_bad_fork, CudaBase_new, pid, env, other,
                       curDevice, ctxs, scopes, entered>>

\* current_device(), lines 245-248
current_device(fail) ==
    LET li == _lazy_init(fail) IN
    IF li.err # NoErr
    THEN [li |-> li, err |-> li.err, device |-> curDevice, calls |-> li.calls]
    ELSE LET g == ShimGetDevice IN
         [li |-> li, err |-> g.err, device |-> g.device,
          calls |-> li.calls \o <<"_cuda_getDevice">>]

CurrentDevice ==
    \E fail \in InitFailures :
        LET r == current_device(fail) IN
        /\ SetGlobals(r.li)
        /\ ret' = Ret("current_device", r.device, r.err, "None", r.li.init, r.calls, r.li.ran)
        /\ UNCHANGED <<_queued_calls, _in_bad_fork, CudaBase_new, pid, env, other,
                       curDevice, ctxs, scopes, entered>>

\* synchronize(), lines 251-254
synchronize(fail) ==
    LET li == _lazy_init(fail) IN
    IF li.err # NoErr
    THEN [li |-> li, err |-> li.err, calls |-> li.calls]
    ELSE [li |-> li, err |-> IF hasShim THEN NoErr ELSE AttributeError,
          calls |-> li.calls \o <<"_cuda_synchronize">>]

Synchronize ==
    \E fail \in InitFailures :
        LET r == synchronize(fail) IN
        /\ SetGlobals(r.li)
        /\ ret' = Ret("synchronize", 0, r.err, "None", r.li.init, r.calls, r.li.ran)
        /\ UNCHANGED <<_queued_calls, _in_bad_fork, CudaBase_new, pid, env, other,
                       curDevice, ctxs, scopes, entered>>

\* ------------------------------------------------------ threads
\* Threads calling _lazy_init() at the same time.  The function takes no
\* lock, so the interpreter may switch threads between its statements;
\* thr[t].pc is the line thread t executes next, thr[t].i its position in
\* the for loop of line 107 and thr[t].inits the times it got through the
\* native initialisation of lines 100-104.

ThreadFrame ==
    UNCHANGED <<_in_bad_fork, CudaBase_new, pid, env, curStream, sscopes,
                curDevice, ctxs, scopes, entered>>

\* Lines 87-99: the two tests and the driver check.
ThreadCall(t) ==
    /\ thr[t].pc = "idle"
    /\ IF _initialized
       THEN /\ thr' = [thr EXCEPT ![t].pc = "returned"]
            /\ ret' = Ret("_lazy_init", t, NoErr, "None", "noop", <<>>, <<>>)
       ELSE IF _in_bad_fork
       THEN /\ thr' = [thr EXCEPT ![t].pc = "raised"]
            /\ ret' = Ret("_lazy_init", t, BadForkError, "None", "raise", <<>>, <<>>)
       ELSE IF _check_driver.err # NoErr
       THEN /\ thr' = [thr EXCEPT ![t].pc = "raised"]
            /\ ret' = Ret("_lazy_init", t, _check_driver.err, "None", "raise",
                          _check_driver.calls, <<>>)
       ELSE /\ thr' = [thr EXCEPT ![t].pc = "line 100"]
            /\ UNCHANGED ret
    /\ UNCHANGED <<machine, executed>>
    /\ ThreadFrame

\* Lines 100-104: the native initialisation and the library resolution.
ThreadNativeInit(t) ==
    \E fail \in {"none", "_cuda_init", "_cuda_sparse_init", "_load_cudart"} :
        /\ thr[t].pc = "line 100"
        /\ IF fail = "none"
           THEN /\ thr' = [thr EXCEPT ![t].pc = "line 105", ![t].inits = @ + 1]
                /\ _cudart' = TRUE
                /\ UNCHANGED ret
           ELSE /\ thr' = [thr EXCEPT ![t].pc = "raised"]
                /\ ret' = Ret("_lazy_init", t,
                              IF fail = "_load_cudart" THEN NoCudartError
                              ELSE NativeInitError,
                              "None", "raise", <<fail>>, <<>>)
                /\ UNCHANGED _cudart
        /\ UNCHANGED <<_initialized, _queued_calls, _original_pid, executed>>
        /\ ThreadFrame

\* Lines 105-106, and the for statement of line 107 taking its iterator.
ThreadSetInitialized(t) ==
    /\ thr[t].pc = "line 105"
    /\ _original_pid' = pid
    /\ _initialized' = TRUE
    /\ thr' = [thr EXCEPT ![t].pc = "line 107", ![t].i = 1]
    /\ UNCHANGED <<_queued_calls, _cudart, executed, ret>>
    /\ ThreadFrame

\* Lines 107-113: one turn of the loop, or its end and the return.
ThreadDrain(t) ==
    LET i == thr[t].i IN
    /\ thr[t].pc = "line 107"
    /\ IF i > Len(_queued_calls)
       THEN /\ thr' = [thr EXCEPT ![t].pc = "returned"]
            /\ ret' = Ret("_lazy_init", t, NoErr, "None", "done", <<>>, <<>>)
            /\ UNCHANGED executed
       ELSE /\ executed' = Append(executed, _queued_calls[i].id)
            /\ IF _queued_calls[i].err # "none"
               THEN /\ thr' = [thr EXCEPT ![t].pc = "raised"]
                    /\ ret' = Ret("_lazy_init", t,
                                  DeferredCudaCallError(_queued_calls[i].err,
                                                        _queued_calls[i].tb),
                                  "None", "raise", <<>>, <<_queued_calls[i].id>>)
               ELSE /\ thr' = [thr EXCEPT ![t].i = i + 1]
                    /\ UNCHANGED ret
    /\ UNCHANGED machine
    /\ ThreadFrame

\* Callables are queued before the threads start.
NextThreads ==
    \/ ((\A t \in Threads : thr[t].pc = "idle") /\ LazyCall)
    \/ \E t \in Threads : ThreadCall(t)
    \/ \E t \in Threads : ThreadNativeInit(t)
    \/ \E t \in Threads : ThreadSetInitialized(t)
    \/ \E t \in Threads : ThreadDrain(t)

SpecThreads == Init /\ [][NextThreads]_vars

\* ------------------------------------------------------ specifications
\* The initialization state machine and its direct callers.
Next ==
    \/ IsAvailable
    \/ LazyCall
    \/ LazyInit
    \/ Fork
    \/ AfterFork
    \/ Construct
    \/ CheckError

Spec == Init /\ [][Next]_vars

\* Device scopes over the state machine; at most one action is deferred.
\* A fork before initialization changes only the pid, which no device
\* scope reads, so forks are taken from initialized processes.
NextDevice ==
    \/ NewDevice
    \/ Enter
    \/ Exit
    \/ SetDevice
    \/ LazyInit
    \/ (_initialized /\ Fork)
    \/ (NextId = 1 /\ LazyCall)

SpecDevice == Init /\ [][NextDevice]_vars

\* Stream scopes and the entry points that read or write the current device
\* or stream.
NextStream ==
    \/ StreamEnter
    \/ StreamExit
    \/ CurrentStream
    \/ CurrentDevice
    \/ Synchronize
    \/ SetDevice
    \/ LazyInit
    \/ Fork

SpecStream == Init /\ [][NextStream]_vars

\* ------------------------------------------------------------ claims
Count(calls, name) == Cardinality({i \in DOMAIN calls : calls[i] = name})
QueuedIds == Range(Ids(_queued_calls))
IsQueued(a) == a \in QueuedIds
state == <<_initialized, _queued_calls, _in_bad_fork, _original_pid, _cudart,
           CudaBase_new, curDevice, ctxs, scopes, executed>>

\* C1: the deferred actions run in the order they were enqueued.  In every
\* state the queued actions that have run so far are, in the order they ran,
\* an initial part of the queue; and a _lazy_init call that initializes and
\* succeeds has run the whole queue, in queue order.
FifoDrain ==
    LET done == SelectSeq(executed, IsQueued) IN
    /\ Len(done) <= Len(_queued_calls)
    /\ done = SubSeq(Ids(_queued_calls), 1, Len(done))
    /\ ret.init = "done" => ret.ran = Ids(_queued_calls)

FifoDrainWitness ==
    /\ ret.op = "_lazy_init"
    /\ ret.init = "done"
    /\ Len(ret.ran) >= 2

\* C2: a deferred action that raises ends the drain.  The caller gets a
\* DeferredCudaCallError holding that action's error and the traceback taken
\* when it was enqueued, and no action behind it in the queue has run, in
\* this call or at any later time.
DrainStopsAtFailure ==
    /\ \A i \in 1..Len(_queued_calls) :
           (_queued_calls[i].err # "none" /\ _queued_calls[i].id \in Range(executed))
           => \A j \in (i + 1)..Len(_queued_calls) :
                  _queued_calls[j].id \notin Range(executed)
    /\ \A i \in 1..Len(_queued_calls) :
           (_queued_calls[i].err # "none" /\ _queued_calls[i].id \in Range(ret.ran))
           => /\ ret.kind = "raise"
              /\ ret.err = DeferredCudaCallError(_queued_calls[i].err, _queued_calls[i].tb)
              /\ ret.ran = SubSeq(Ids(_queued_calls), 1, i)

DrainStopsAtFailureWitness ==
    /\ ret.err.type = "DeferredCudaCallError"
    /\ Len(ret.ran) = 2
    /\ Len(_queued_calls) = 3
    /\ _queued_calls[2].tb # _queued_calls[3].tb

\* C3: _lazy_init is idempotent.  A call made while initialized returns
\* without a shim call, without running an action and without changing any
\* state; a call that initialized followed by a second call makes the driver
\* check, the native init and the library resolution once each in total.
InitIdempotent ==
    [][(ret'.op = "_lazy_init" /\ _initialized) =>
          /\ ret'.kind = "return"
          /\ ret'.calls = <<>>
          /\ ret'.ran = <<>>
          /\ UNCHANGED <<state, pid, env>>
          /\ (ret.op = "_lazy_init" /\ ret.init = "done") =>
                 \A c \in {"_cuda_isDriverSufficient", "_cuda_init", "_load_cudart"} :
                     Count(ret.calls \o ret'.calls, c) = 1]_vars

InitIdempotentWitness ==
    /\ ret.op = "_lazy_init"
    /\ ret.init = "noop"
    /\ _initialized
    /\ executed # <<>>

\* C4: the fork hook firing while initialized in another process than the
\* one recorded puts the machine in BadFork, and BadFork is never left: from
\* then on the machine is never initialized and every _lazy_init call, made
\* directly or by another operation, raises the re-initialization error.
BadForkAbsorbing ==
    [][/\ (ret'.op \in {"fork", "_after_fork"} /\ _initialized /\ _original_pid # pid')
          => (_in_bad_fork' /\ ~_initialized')
       /\ _in_bad_fork => (_in_bad_fork' /\ ~_initialized')
       /\ (_in_bad_fork /\ ret'.init # "none")
          => (ret'.kind = "raise" /\ ret'.err = BadForkError /\ ret'.calls = <<>>)]_vars

BadForkAbsorbingWitness ==
    /\ _in_bad_fork
    /\ ret.op = "_CudaBase.__new__"
    /\ ret.err = BadForkError

\* C5: is_available returns True exactly when the shim is there, the driver
\* is sufficient and there is at least one device; it never raises, and it
\* leaves the initialization state as it was.
AvailabilityProbe ==
    [][ret'.op = "is_available" =>
          /\ ret'.kind = "return"
          /\ (ret'.value = "True") <=> (hasShim /\ driverSufficient /\ deviceCount > 0)
          /\ ~hasShim => (ret'.value = "False" /\ ret'.calls = <<>>)
          /\ ret'.init = "none"
          /\ ret'.ran = <<>>
          /\ UNCHANGED <<state, pid, env>>]_vars

AvailabilityProbeWitness ==
    /\ ret.op = "is_available"
    /\ ret.value = "True"
    /\ ~_initialized
    /\ _queued_calls # <<>>

\* C6: leaving a device scope entered with a device index (idx >= 0) leaves
\* the current device equal to the prev_idx recorded at entry.
ExitRestoresPrevious ==
    (ret.op = "__exit__" /\ ctxs[ret.arg].idx >= 0)
    => curDevice = ctxs[ret.arg].prev_idx

\* C7: entering and leaving a device scope of index -1 makes no shim call,
\* does not call _lazy_init, runs no deferred action and changes neither the
\* current device nor the initialization state.
SentinelScopeIsNoOp ==
    [][(ret'.op \in {"__enter__", "__exit__"} /\ ctxs[ret'.arg].idx = 0 - 1) =>
          /\ ret'.calls = <<>>
          /\ ret'.init = "none"
          /\ ret'.ran = <<>>
          /\ UNCHANGED <<_initialized, _queued_calls, _in_bad_fork, _original_pid,
                         _cudart, CudaBase_new, curDevice, ctxs, executed, pid, env>>]_vars

SentinelScopeIsNoOpWitness ==
    /\ ret.op = "__exit__"
    /\ ctxs[ret.arg].idx = 0 - 1
    /\ _in_bad_fork
    /\ _queued_calls # <<>>

\* C8: a device scope of any negative index is a no-op: entering it does
\* not call _lazy_init and makes no _cuda_setDevice call.
NegativeIndexIsNoOp ==
    (ret.op = "__enter__" /\ ctxs[ret.arg].idx < 0)
    => (ret.init = "none" /\ "_cuda_setDevice" \notin Range(ret.calls))

\* C9: with an insufficient driver _lazy_init raises the 'found no driver'
\* error when the version query gives 0 and the 'driver too old' error
\* holding the version otherwise; with no shim it raises the 'not compiled'
\* error; the three differ and _cuda_init is not called in any of them.
DriverErrors ==
    (ret.op = "_lazy_init" /\ ~_initialized /\ ~_in_bad_fork) =>
        /\ ~hasShim => ret.err = NotCompiledError
        /\ (hasShim /\ ~driverSufficient /\ driverVersion = 0) => ret.err = NoDriverError
        /\ (hasShim /\ ~driverSufficient /\ driverVersion # 0) =>
               /\ ret.err.variant = DriverTooOldError(0).variant
               /\ ret.err.code = driverVersion
        /\ (~hasShim \/ ~driverSufficient) =>
               /\ ret.kind = "raise"
               /\ "_cuda_init" \notin Range(ret.calls)
               /\ Cardinality({NotCompiledError.variant, NoDriverError.variant,
                               DriverTooOldError(driverVersion).variant}) = 3

DriverErrorsWitness ==
    /\ ret.op = "_lazy_init"
    /\ ret.err = DriverTooOldError(8000)

\* C10 as stated: check_error gives success for 0, an outcome of its own
\* kind for the not-ready code, and a CudaError for every other code.
NotReadyIsDistinctKind ==
    (ret.op = "check_error" /\ ret.init \in {"none", "noop", "done"}) =>
        /\ ret.arg = SUCCESS => ret.kind = "return"
        /\ ret.arg = ERROR_NOT_READY => ret.err.type # "CudaError"
        /\ ret.arg \notin {SUCCESS, ERROR_NOT_READY} => ret.err.type = "CudaError"

\* C10 amended: check_error returns for 0 and raises for every other code,
\* the not-ready code included: a CudaError holding the code when the
\* _lazy_init call made to build it does not fail, that call's error when it
\* does.
CheckErrorOutcomes ==
    ret.op = "check_error" =>
        /\ ret.arg = SUCCESS => (ret.kind = "return" /\ ret.init = "none" /\ ret.calls = <<>>)
        /\ ret.arg # SUCCESS =>
               /\ ret.kind = "raise"
               /\ ret.init \in {"noop", "done"} => ret.err = CudaError(ret.arg)
               /\ ret.init = "raise" => ret.err.type # "CudaError"

CheckErrorOutcomesWitness ==
    /\ ret.op = "check_error"
    /\ ret.arg = ERROR_NOT_READY
    /\ ret.err = CudaError(ERROR_NOT_READY)

\* C11: the deferred queue is non-empty only while the machine is not
\* initialized: whenever _initialized is true, _queued_calls is empty.
QueueEmptyWhenInitialized ==
    _initialized => _queued_calls = <<>>

\* C12: a stream scope entered with None makes no shim call and does not
\* initialize; one entered with a stream captures the current stream and sets
\* the new one, and when the block ends, normally or by its body raising, the
\* current stream is again the one that was current at entry.
StreamScopeRestores ==
    [][/\ (ret'.op = "stream.__enter__" /\ ret'.arg = None) =>
              /\ ret'.kind = "return"
              /\ ret'.calls = <<>>
              /\ ret'.init = "none"
              /\ UNCHANGED <<state, pid, env, curStream>>
       /\ (ret'.op = "stream.__enter__" /\ ret'.arg # None /\ ret'.kind = "return") =>
              /\ sscopes'[Len(sscopes')].prev_stream = curStream
              /\ curStream' = ret'.arg
       /\ ret'.op = "stream.__exit__" =>
              LET sc == sscopes[Len(sscopes)] IN
              /\ curStream' = sc.entry
              /\ sc.stream = None => (ret'.calls = <<>> /\ UNCHANGED <<state, pid, env>>)
              /\ ret'.err = IF ret'.value = "body raised" THEN BodyError ELSE NoErr]_vars

StreamScopeRestoresWitness ==
    /\ ret.op = "stream.__exit__"
    /\ ret.value = "body raised"
    /\ ret.arg = 1
    /\ curStream = 2
    /\ Len(sscopes) = 1

\* C13: no _cuda_getDevice, _cuda_setDevice, _cuda_getCurrentStream,
\* _cuda_setStream or _cuda_synchronize call is made while the machine is
\* not initialized: every operation that makes one went through _lazy_init.
RuntimeCalls ==
    {"_cuda_getDevice", "_cuda_setDevice", "_cuda_getCurrentStream",
     "_cuda_setStream", "_cuda_synchronize"}

RuntimeCallsOnlyWhenReady ==
    (Range(ret.calls) \cap RuntimeCalls # {}) => _initialized

\* C14: a _lazy_init call that raises at the bad-fork check, the driver
\* check, the native init or the library resolution leaves _initialized
\* false and changes neither the recorded pid nor the queue, and runs no
\* deferred action; the next call starts again at the driver check.  A call
\* that raises because a deferred action failed leaves _initialized true.
InitFailsAtomically ==
    [][/\ (ret'.init = "raise" /\ ret'.err.type # "DeferredCudaCallError") =>
              /\ ~_initialized'
              /\ ret'.ran = <<>>
              /\ UNCHANGED <<_initialized, _in_bad_fork, _original_pid, _cudart,
                             _queued_calls, executed>>
       /\ (ret'.init = "raise" /\ ret'.err.type = "DeferredCudaCallError") =>
              (~_initialized /\ _initialized' /\ _original_pid' = pid)
       /\ (ret.init = "raise" /\ ret.err \in {NativeInitError, NoCudartError}
           /\ ret'.init # "none") =>
              (ret'.calls # <<>> /\ ret'.calls[1] = "_cuda_isDriverSufficient")]_vars

InitFailsAtomicallyWitness ==
    /\ ret.init = "raise"
    /\ ret.err = NoCudartError
    /\ ~_initialized
    /\ _queued_calls # <<>>
    /\ executed = <<>>

\* C15: the fork hook changes nothing when the machine is not initialized or
\* the process is the one recorded: _initialized, _in_bad_fork, the queue
\* and _CudaBase.__new__ stay as they were, and a _lazy_init call made next
\* in a child that never initialized does not raise the bad-fork error and,
\* unless a native step fails, initializes the child.
ForkHookFrame ==
    [][/\ (ret'.op \in {"fork", "_after_fork"} /\ (~_initialized \/ _original_pid = pid')) =>
              UNCHANGED <<_initialized, _in_bad_fork, _queued_calls, CudaBase_new,
                          _original_pid, _cudart, executed>>
       /\ (ret.op = "fork" /\ ~_initialized /\ ~_in_bad_fork /\ ret'.op = "_lazy_init"
           /\ hasShim /\ driverSufficient) =>
              /\ ret'.err # BadForkError
              /\ ret'.err.type # "RuntimeError" => (_initialized' /\ _original_pid' = pid)]_vars

ForkHookFrameWitness ==
    /\ ret.op = "_lazy_init"
    /\ ret.init = "done"
    /\ pid > 1
    /\ _original_pid = pid
    /\ _initialized

\* C16: object construction skips _lazy_init only while the machine is
\* initialized: _CudaBase.__new__ is deleted only in an initialized machine,
\* the fork hook's move to BadFork installs _lazy_new again, and in BadFork
\* every construction calls _lazy_init and raises the bad-fork error.
FastPathOnlyWhenReady ==
    /\ CudaBase_new = "deleted" => (_initialized /\ ~_in_bad_fork)
    /\ (ret.op = "_CudaBase.__new__" /\ ret.init = "none") => _initialized
    /\ (ret.op = "_CudaBase.__new__" /\ _in_bad_fork) =>
           (ret.init = "raise" /\ ret.err = BadForkError)

FastPathOnlyWhenReadyWitness ==
    /\ ret.op = "_CudaBase.__new__"
    /\ ret.init = "none"
    /\ CudaBase_new = "deleted"
    /\ pid > 1

\* C18: on one thread every callable given to _lazy_call is invoked at most
\* once: one given while initialized is invoked in that call and not
\* queued, one queued is not invoked by that call, and no _lazy_init call
\* invokes a queued one a second time.
AtMostOnce ==
    /\ \A i, j \in 1..Len(executed) : executed[i] = executed[j] => i = j
    /\ (ret.op = "_lazy_call" /\ ret.ran # <<>>) =>
           (ret.ran = <<ret.arg>> /\ ret.arg \notin QueuedIds)
    /\ (ret.op = "_lazy_call" /\ ret.ran = <<>>) =>
           (ret.arg \in QueuedIds /\ ret.arg \notin Range(executed))

AtMostOnceWitness ==
    /\ ret.op = "_lazy_call"
    /\ ret.ran # <<>>
    /\ Len(executed) = 3
    /\ Len(_queued_calls) = 2

\* C17: device.__exit__ never raises an error of its own: a with-block
\* whose body ended normally ends with no error even if the restoring
\* _cuda_setDevice fails, and one whose body raised ends with the body's
\* error.
ExitNeverRaises ==
    ret.op = "__exit__" =>
        ret.err = (IF ret.value = "body raised" THEN BodyError ELSE NoErr)

\* Nested with-blocks over device objects, the current device changed only
\* by the blocks themselves while one is open.
NextNested ==
    \/ NewDevice
    \/ Enter
    \/ Exit
    \/ (scopes = <<>> /\ SetDevice)

SpecNested == Init /\ [][NextNested]_vars

\* C20: with-blocks over device objects with an index >= 0 nest: when a
\* block ends and the restoring call did not fail, the current device is
\* the one that was current just before that block was entered, whether
\* the block used a new device object or one whose block is still open.
ScopesCompose ==
    [][(/\ ret'.op = "__exit__"
        /\ ret'.err \in {NoErr, BodyError}
        /\ \A k \in 1..Len(scopes) : ctxs[scopes[k]].idx >= 0) =>
           curDevice' = entered[Len(entered)]]_vars

\* C19: with threads inside _lazy_init() at the same time, at most one of
\* them gets through the native initialisation, no queued callable is
\* invoked twice, and, no call having raised, a call has returned only when
\* every queued callable has been invoked.
ConcurrentInitSafe ==
    /\ Cardinality({t \in Threads : thr[t].inits > 0}) <= 1
    /\ \A i, j \in 1..Len(executed) : executed[i] = executed[j] => i = j
    /\ (\A u \in Threads : thr[u].pc # "raised") =>
           \A t \in Threads :
               thr[t].pc = "returned" => QueuedIds \subseteq Range(executed)

====
